---- MODULE Spec2Model ----
(***************************************************************************)
(* Model of ns-stress-test/vault_namespace.py: a script that creates n     *)
(* Vault namespaces (depth 2) or n parent namespace trees (depth 3), each  *)
(* namespace with x KV v2 mounts, through curl, on a ThreadPoolExecutor.   *)
(*                                                                         *)
(* Strings are sequences of one-character (or one-token) strings: a name   *)
(* such as "ns-001" is <<"ns", "-", "0", "0", "1">>.                       *)
(* One work item of the pool (a future) is one record of `futures`; the    *)
(* thread running it is identified with the work item it runs.             *)
(***************************************************************************)
EXTENDS Integers, Sequences, FiniteSets, TLC

\* ------------------------------------------------------------------ bounds
\* -n goes up to MaxN (0 is the invalid value the validation rejects).
MaxN == 2
\* Values of -x, --ns-level2, --workers and --start-index that are explored.
KvsValues == {-1, 0, 1, 2}
Level2Values == {0, 1, 2}
WorkersValues == {0, 1, 2}
StartIndexValues == {1}
\* How many requests of one run may get a response other than the usual one.
MaxFaults == 1
\* The longest curl output whose parsing and classification is explored.
MaxOutLen == 4
\* The values of --start-index of the runs that explore the naming.
WideStartIndexValues == {0, 1, 9, 98, 999}

\* ----------------------------------------------------------------- strings
DigitChars == <<"0", "1", "2", "3", "4", "5", "6", "7", "8", "9">>

DigitSet == {DigitChars[i] : i \in 1..10}

DigitVal(c) == (CHOOSE i \in 1..10 : DigitChars[i] = c) - 1

\* Python str(i) of an integer.
RECURSIVE str(_)
str(i) ==
  IF i < 0 THEN <<"-">> \o str(0 - i)
  ELSE IF i < 10 THEN <<DigitChars[i + 1]>>
  ELSE str(i \div 10) \o <<DigitChars[(i % 10) + 1]>>

Zeros(k) == IF k <= 0 THEN <<>> ELSE [m \in 1..k |-> "0"]

\* Python f"{i:0{width}d}": sign-aware zero padding to at least `width`.
format_0d(i, width) ==
  IF i < 0
  THEN <<"-">> \o Zeros(width - 1 - Len(str(0 - i))) \o str(0 - i)
  ELSE Zeros(width - Len(str(i))) \o str(i)

max(a, b) == IF a >= b THEN a ELSE b

\* Python int(s) on a string of decimal digits (ValueError otherwise).
IsDigits(s) == Len(s) > 0 /\ \A i \in 1..Len(s) : s[i] \in DigitSet

RECURSIVE int(_)
int(s) ==
  IF Len(s) = 0 THEN 0
  ELSE 10 * int(SubSeq(s, 1, Len(s) - 1)) + DigitVal(s[Len(s)])

startswith(s, p) == Len(s) >= Len(p) /\ SubSeq(s, 1, Len(p)) = p

\* --------------------------------------------------------------- transport
\* What one curl invocation can do once the process was started: raise an
\* exception inside subprocess.run (raises = TRUE), or end with stdout `out`.
\* "b" stands for any character of the response body.
Outs ==
  { <<"b", "2", "0", "1">>, <<"4", "0", "9">>, <<"b", "4", "0", "0">>,
    <<"5", "0", "0">>, <<"b", "b">> }

Responses ==
  [raises : {FALSE}, out : Outs] \cup {[raises |-> TRUE, out |-> <<>>]}

\* The answers by which the service may depart from its usual answer: a
\* success, a server error, an exception.
FaultResponses ==
  { [raises |-> FALSE, out |-> <<"b", "2", "0", "1">>],
    [raises |-> FALSE, out |-> <<"5", "0", "0">>],
    [raises |-> TRUE, out |-> <<>>] }

\* out[-3:]
code_str(out) == SubSeq(out, max(1, Len(out) - 2), Len(out))

\* run_curl after subprocess.run returned: (code, body).
run_curl(out) ==
  IF IsDigits(code_str(out))
  THEN [code |-> int(code_str(out)), body |-> SubSeq(out, 1, Len(out) - 3)]
  ELSE [code |-> 0 - 1, body |-> out]

\* The request create_namespace sends: POST /v1/sys/namespaces/<ns_name>
\* with header X-Vault-Namespace: <parent_ns>.
create_namespace(ns_name, parent_ns) ==
  [op |-> "namespaces", url |-> ns_name, header |-> parent_ns]

\* The request enable_kv2 sends: POST /v1/sys/mounts/<mount_path> with
\* header X-Vault-Namespace: <ns_name>.
enable_kv2(ns_name, mount_path) ==
  [op |-> "mounts", url |-> mount_path, header |-> ns_name]

\* ------------------------------------------------- create_namespace_with_kvs
Root == <<"root">>

RootSlash == <<"root", "/">>

new_results(full_ns_path) ==
  [ns_name |-> full_ns_path, ns_created |-> FALSE, ns_code |-> 0,
   kv_results |-> <<>>]

Line(tag, path, mount, code) ==
  [tag |-> tag, path |-> path, mount |-> mount, code |-> code]

\* Mutant of ns_branch: a namespace whose creation failed is not marked
\* created.
ns_branch_failed_not_created(code_ns, full_ns_path) ==
  IF code_ns \in {200, 201, 204}
  THEN [line |-> Line("OK", full_ns_path, <<>>, code_ns), ns_created |-> TRUE]
  ELSE IF code_ns = 409
  THEN [line |-> Line("EXISTE", full_ns_path, <<>>, 409), ns_created |-> TRUE]
  ELSE IF code_ns = 400
  THEN [line |-> Line("WARN", full_ns_path, <<>>, 400), ns_created |-> TRUE]
  ELSE [line |-> Line("ERREUR", full_ns_path, <<>>, code_ns),
        ns_created |-> FALSE]

\* Mutant of ns_branch: 400 is not told apart from an error.
ns_branch_no_400(code_ns, full_ns_path) ==
  IF code_ns \in {200, 201, 204}
  THEN [line |-> Line("OK", full_ns_path, <<>>, code_ns), ns_created |-> TRUE]
  ELSE IF code_ns = 409
  THEN [line |-> Line("EXISTE", full_ns_path, <<>>, 409), ns_created |-> TRUE]
  ELSE [line |-> Line("ERREUR", full_ns_path, <<>>, code_ns),
        ns_created |-> TRUE]

\* The if/elif chain on code_ns: the line printed and the ns_created flag.
ns_branch(code_ns, full_ns_path) ==
  IF code_ns \in {200, 201, 204}
  THEN [line |-> Line("OK", full_ns_path, <<>>, code_ns), ns_created |-> TRUE]
  ELSE IF code_ns = 409
  THEN [line |-> Line("EXISTE", full_ns_path, <<>>, 409), ns_created |-> TRUE]
  ELSE IF code_ns = 400
  THEN [line |-> Line("WARN", full_ns_path, <<>>, 400), ns_created |-> TRUE]
  ELSE [line |-> Line("ERREUR", full_ns_path, <<>>, code_ns),
        ns_created |-> TRUE]

\* Mutant of kv_branch: 409 is not told apart from an error.
kv_branch_no_409(code_kv, full_ns_path, mount) ==
  IF code_kv \in {200, 201, 204}
  THEN Line("OK", full_ns_path, mount, code_kv)
  ELSE IF code_kv = 400
  THEN Line("WARN", full_ns_path, mount, 400)
  ELSE Line("ERREUR", full_ns_path, mount, code_kv)

\* The if/elif chain on code_kv: the line printed.
kv_branch(code_kv, full_ns_path, mount) ==
  IF code_kv \in {200, 201, 204}
  THEN Line("OK", full_ns_path, mount, code_kv)
  ELSE IF code_kv = 400
  THEN Line("WARN", full_ns_path, mount, 400)
  ELSE IF code_kv = 409
  THEN Line("EXISTE", full_ns_path, mount, 409)
  ELSE Line("ERREUR", full_ns_path, mount, code_kv)

\* Mutant of ns_for_kv: only the first namespace of the path is kept, so a
\* child's mounts go to its parent.
ns_for_kv_first_segment(full_ns_path) ==
  LET p == IF startswith(full_ns_path, RootSlash)
           THEN SubSeq(full_ns_path, Len(RootSlash) + 1, Len(full_ns_path))
           ELSE full_ns_path
      slashes == {i \in 1..Len(p) : p[i] = "/"}
  IN  IF slashes = {} THEN p
      ELSE SubSeq(p, 1, (CHOOSE i \in slashes : \A j \in slashes : i <= j) - 1)

ns_for_kv(full_ns_path) ==
  IF startswith(full_ns_path, RootSlash)
  THEN SubSeq(full_ns_path, Len(RootSlash) + 1, Len(full_ns_path))
  ELSE full_ns_path

mount_name(mount_prefix, k, width_kv) ==
  mount_prefix \o <<"-">> \o format_0d(k, width_kv)

\* The frame of one create_namespace_with_kvs call: its arguments.
unit_frame(ns_name, parent_ns, full_ns_path, mount_prefix, start_index, num_kvs, width_kv) ==
  [ns_name |-> ns_name, parent_ns |-> parent_ns,
   full_ns_path |-> full_ns_path, mount_prefix |-> mount_prefix,
   start_index |-> start_index, num_kvs |-> num_kvs, width_kv |-> width_kv]

\* Mutant of enter_unit: the mounts are created first and the namespace is
\* never created.
enter_unit_mounts_first(tk, frame) ==
  [tk EXCEPT !.unit = frame, !.results = new_results(frame.full_ns_path),
             !.phase = IF frame.num_kvs > 0 THEN "kv" ELSE "ns",
             !.k = frame.start_index]

\* Entry of create_namespace_with_kvs: fresh results, then the namespace call.
enter_unit(tk, frame) ==
  [tk EXCEPT !.unit = frame, !.results = new_results(frame.full_ns_path),
             !.phase = "ns"]

\* The next run_curl call of the running unit.
next_request(tk) ==
  IF tk.phase = "ns"
  THEN create_namespace(tk.unit.ns_name, tk.unit.parent_ns)
  ELSE enable_kv2(ns_for_kv(tk.unit.full_ns_path),
                  mount_name(tk.unit.mount_prefix, tk.k, tk.unit.width_kv))

\* ---------------------------------------------- create_parent_namespace_tree
new_tree(parent_name) ==
  [parent |-> parent_name, parent_created |-> FALSE, children |-> <<>>]

\* Entry of create_parent_namespace_tree up to the parent's namespace call.
enter_tree(tk) ==
  LET a == tk.args
      parent_full_path == RootSlash \o a.parent_name
  IN  enter_unit(
        [tk EXCEPT !.tree = new_tree(a.parent_name), !.level = "parent",
                   !.log = Append(@, Line("PARENT", parent_full_path, <<>>, 0))],
        unit_frame(a.parent_name, Root, parent_full_path, a.mount_prefix,
                   a.start_index, a.num_kvs, a.width_kv))

\* One iteration of the loop over children up to the child's namespace call.
call_child(tk, j) ==
  LET a == tk.args
      parent_full_path == RootSlash \o a.parent_name
      child_name == a.parent_name \o <<"-">> \o format_0d(j, a.width_child)
      child_full_path == parent_full_path \o <<"/">> \o child_name
  IN  enter_unit(
        [tk EXCEPT !.j = j, !.level = "child",
                   !.log = Append(@, Line("CHILD", child_full_path, <<>>, 0))],
        unit_frame(child_name, a.parent_name, child_full_path,
                   a.mount_prefix, a.start_index, a.num_kvs, a.width_kv))

\* Mutant of unit_return: the children are taken from the last index down.
unit_return_desc(tk) ==
  IF tk.level = "flat" THEN [tk EXCEPT !.st = "done"]
  ELSE IF tk.level = "parent"
  THEN LET t1 == [tk EXCEPT !.tree.parent_created = tk.results.ns_created]
       IN  IF tk.args.ns_level2 > 0
           THEN call_child(t1, tk.args.start_index + tk.args.ns_level2 - 1)
           ELSE [t1 EXCEPT !.st = "done"]
  ELSE LET t1 == [tk EXCEPT !.tree.children = Append(@, tk.results)]
       IN  IF tk.j - 1 >= tk.args.start_index
           THEN call_child(t1, tk.j - 1)
           ELSE [t1 EXCEPT !.st = "done"]

\* create_namespace_with_kvs returns `results` to its caller: the pool
\* (depth 2), or create_parent_namespace_tree, which goes on with the children.
unit_return(tk) ==
  IF tk.level = "flat" THEN [tk EXCEPT !.st = "done"]
  ELSE IF tk.level = "parent"
  THEN LET t1 == [tk EXCEPT !.tree.parent_created = tk.results.ns_created]
       IN  IF tk.args.ns_level2 > 0
           THEN call_child(t1, tk.args.start_index)
           ELSE [t1 EXCEPT !.st = "done"]
  ELSE LET t1 == [tk EXCEPT !.tree.children = Append(@, tk.results)]
       IN  IF tk.j + 1 < tk.args.start_index + tk.args.ns_level2
           THEN call_child(t1, tk.j + 1)
           ELSE [t1 EXCEPT !.st = "done"]

\* Mutant of on_ns_return: an [ERREUR] or [WARN] outcome returns at once,
\* without the mounts.
on_ns_return_gated(tk, code_ns) ==
  LET b == ns_branch(code_ns, tk.unit.full_ns_path)
      t1 == [tk EXCEPT !.results.ns_code = code_ns,
                       !.results.ns_created = b.ns_created,
                       !.log = Append(@, b.line)]
  IN  IF tk.unit.num_kvs > 0 /\ b.line.tag \in {"OK", "EXISTE"}
      THEN [t1 EXCEPT !.phase = "kv", !.k = tk.unit.start_index]
      ELSE unit_return(t1)

\* create_namespace_with_kvs from the return of create_namespace to the
\* first enable_kv2 call (or the return, when there is no mount to create).
on_ns_return(tk, code_ns) ==
  LET b == ns_branch(code_ns, tk.unit.full_ns_path)
      t1 == [tk EXCEPT !.results.ns_code = code_ns,
                       !.results.ns_created = b.ns_created,
                       !.log = Append(@, b.line)]
  IN  IF tk.unit.num_kvs > 0
      THEN [t1 EXCEPT !.phase = "kv", !.k = tk.unit.start_index]
      ELSE unit_return(t1)

\* Mutant of on_kv_return: a mount whose creation failed is tried once more.
on_kv_return_retry(tk, code_kv) ==
  LET mount == mount_name(tk.unit.mount_prefix, tk.k, tk.unit.width_kv)
      n == Len(tk.reqs)
      t1 == [tk EXCEPT
               !.results.kv_results =
                  Append(@, [mount |-> mount, code |-> code_kv]),
               !.log = Append(@, kv_branch(code_kv, tk.unit.full_ns_path,
                                           mount))]
  IN  IF code_kv \notin {200, 201, 204, 400, 409}
         /\ tk.reqs[n - 1].req # tk.reqs[n].req
      THEN tk
      ELSE IF tk.k + 1 < tk.unit.start_index + tk.unit.num_kvs
      THEN [t1 EXCEPT !.k = tk.k + 1]
      ELSE unit_return(t1)

\* create_namespace_with_kvs from the return of enable_kv2 to the next
\* enable_kv2 call (or the return, after the last mount).
on_kv_return(tk, code_kv) ==
  LET mount == mount_name(tk.unit.mount_prefix, tk.k, tk.unit.width_kv)
      t1 == [tk EXCEPT
               !.results.kv_results =
                  Append(@, [mount |-> mount, code |-> code_kv]),
               !.log = Append(@, kv_branch(code_kv, tk.unit.full_ns_path,
                                           mount))]
  IN  IF tk.k + 1 < tk.unit.start_index + tk.unit.num_kvs
      THEN [t1 EXCEPT !.k = tk.k + 1]
      ELSE unit_return(t1)

\* ---------------------------------------------------------------------- main
MinWidth == 3

\* Mutant of width_for: the width of the first index, not of the last.
width_for_first(start_index, count) ==
  max(MinWidth, Len(str(start_index)))

\* max(3, len(str(args.start_index + count - 1)))
width_for(start_index, count) ==
  max(MinWidth, Len(str(start_index + count - 1)))

width_kv_for(start_index, x) ==
  IF x > 0 THEN width_for(start_index, x) ELSE MinWidth

ns_prefix == <<"ns">>

mount_prefix == <<"kv">>

\* An entry of the task list: the function to submit, its arguments, and the
\* element of the tuple that future_to_ns / future_to_parent keeps as label.
new_task(fn, a, label) == [fn |-> fn, args |-> a, label |-> label]

\* A work item as executor.submit creates it.
new_future(task) ==
  [fn |-> task.fn, args |-> task.args, label |-> task.label,
   st |-> "queued", level |-> "none",
   unit |-> unit_frame(<<>>, <<>>, <<>>, <<>>, 0, 0, 0),
   results |-> new_results(<<>>), tree |-> new_tree(<<>>),
   phase |-> "ns", k |-> 0, j |-> 0, inflight |-> FALSE,
   reqs |-> <<>>, log |-> <<>>]

\* depth == 2: the tuples of `tasks`.
flat_tasks(a) ==
  LET width_ns == width_for(a.start_index, a.n)
      width_kv == width_kv_for(a.start_index, a.x)
  IN  [idx \in 1..a.n |->
        LET i == a.start_index + idx - 1
            ns_name == ns_prefix \o <<"-">> \o format_0d(i, width_ns)
            full_path == RootSlash \o ns_name
        IN  new_task("create_namespace_with_kvs",
              unit_frame(ns_name, Root, full_path, mount_prefix,
                         a.start_index, a.x, width_kv),
              full_path)]

\* depth == 3: the tuples of `parent_tree_tasks`.
tree_tasks(a) ==
  LET width_parent == width_for(a.start_index, a.n)
      width_child == width_for(a.start_index, a.ns_level2)
      width_kv == width_kv_for(a.start_index, a.x)
  IN  [idx \in 1..a.n |->
        LET i == a.start_index + idx - 1
            parent_name == ns_prefix \o format_0d(i, width_parent)
        IN  new_task("create_parent_namespace_tree",
              [parent_name |-> parent_name, ns_prefix |-> ns_prefix,
               mount_prefix |-> mount_prefix, start_index |-> a.start_index,
               num_kvs |-> a.x, ns_level2 |-> a.ns_level2,
               width_parent |-> width_parent, width_child |-> width_child,
               width_kv |-> width_kv],
              parent_name)]

VARIABLES
  args,       \* the parsed command line (addr, token: is the value non-empty)
  curl,       \* the environment: is curl in the PATH, the service's usual answer
  pc,         \* where the main thread is
  exitCode,   \* the exit code of the process, -1 while it runs
  tasks,      \* tasks / parent_tree_tasks
  futures,    \* the work items submitted so far, in submission order
  collected,  \* the work items as_completed has yielded
  completed,  \* the counter `completed`
  out,        \* what the main thread printed
  faults,     \* how many responses differed from the usual one
  probe,      \* a curl output and what run_curl and the if/elif chains make of it
  service,    \* the remote service: what exists, how it answers, what it leaves unanswered
  history,    \* which run of the same command line this is, what the first run requested
  console     \* print_lock, the threads inside safe_print, what reached the terminal

vars ==
  <<args, curl, pc, exitCode, tasks, futures, collected, completed, out, faults,
    probe, service, history, console>>

NoProbe ==
  [out |-> <<>>, done |-> FALSE, code |-> 0, ns |-> "", kv |-> "",
   ns_created |-> FALSE]

\* A service with nothing in it, which the run does not depend on.
NoService ==
  [existing |-> {}, answer |-> [namespaces |-> <<>>, mounts |-> <<>>],
   hung |-> {}]

FirstRun == [run |-> 1, first |-> {}]

\* No thread is inside safe_print, nothing was written.
NoConsole ==
  [lock |-> "free", at |-> <<>>, calls |-> 0, stdout |-> <<>>, stderr |-> <<>>]

\* The command lines explored: two mounts or two children with one
\* top-level namespace only; at depth 2 --ns-level2 keeps its default.
Args ==
  { a \in [addr : BOOLEAN, token : BOOLEAN, n : 0..MaxN, x : KvsValues,
           depth : {2, 3}, ns_level2 : Level2Values,
           start_index : StartIndexValues, workers : WorkersValues] :
      /\ a.depth = 2 => a.ns_level2 = 1
      /\ (a.x = 2 \/ a.ns_level2 = 2) => a.n <= 1 }

Init ==
  /\ args \in Args
  /\ curl \in [found : BOOLEAN, base : Responses]
  /\ pc = "start"
  /\ exitCode = 0 - 1
  /\ tasks = <<>>
  /\ futures = <<>>
  /\ collected = {}
  /\ completed = 0
  /\ out = <<>>
  /\ faults = 0
  /\ probe = NoProbe
  /\ service = NoService
  /\ history = FirstRun
  /\ console = NoConsole

Finished(f) == f.st \in {"done", "raised", "exited"}

Running == {t \in 1..Len(futures) : futures[t].st = "running"}

Queued == {t \in 1..Len(futures) : futures[t].st = "queued"}

MainLine(tag, done, total, label, num_children) ==
  [tag |-> tag, completed |-> done, total |-> total, label |-> label,
   num_children |-> num_children]

\* Mutant of Validate: x is not checked.
Validate_no_x_check ==
  /\ pc = "start"
  /\ IF ~args.addr \/ ~args.token \/ args.n <= 0
     THEN /\ pc' = "exited"
          /\ exitCode' = 2
          /\ out' = Append(out, MainLine("ERREUR", 0, 0, <<>>, 0))
          /\ tasks' = tasks
     ELSE /\ pc' = "executor"
          /\ exitCode' = exitCode
          /\ out' = out
          /\ tasks' = IF args.depth = 2 THEN flat_tasks(args)
                      ELSE tree_tasks(args)
  /\ UNCHANGED <<args, curl, futures, collected, completed, faults, probe, service, history, console>>

\* main() from argument validation to the construction of the task list.
Validate ==
  /\ pc = "start"
  /\ IF ~args.addr \/ ~args.token \/ args.n <= 0 \/ args.x < 0
     THEN /\ pc' = "exited"
          /\ exitCode' = 2
          /\ out' = Append(out, MainLine("ERREUR", 0, 0, <<>>, 0))
          /\ tasks' = tasks
     ELSE /\ pc' = "executor"
          /\ exitCode' = exitCode
          /\ out' = out
          /\ tasks' = IF args.depth = 2 THEN flat_tasks(args)
                      ELSE tree_tasks(args)
  /\ UNCHANGED <<args, curl, futures, collected, completed, faults, probe, service, history, console>>

\* ThreadPoolExecutor(max_workers=args.workers): ValueError when
\* max_workers <= 0, which nothing catches.
CreateExecutor ==
  /\ pc = "executor"
  /\ IF args.workers <= 0
     THEN /\ pc' = "exited"
          /\ exitCode' = 1
     ELSE /\ pc' = "submit"
          /\ exitCode' = exitCode
  /\ UNCHANGED <<args, curl, tasks, futures, collected, completed, out, faults, probe, service, history, console>>

\* executor.submit of the next task of the list.
Submit ==
  /\ pc = "submit"
  /\ Len(futures) < Len(tasks)
  /\ futures' = Append(futures, new_future(tasks[Len(futures) + 1]))
  /\ pc' = IF Len(futures) + 1 = Len(tasks) THEN "as_completed" ELSE pc
  /\ UNCHANGED <<args, curl, exitCode, tasks, collected, completed, out, faults, probe, service, history, console>>

\* Mutant of StartTask: one thread per work item, whatever max_workers is.
StartTask_unbounded(t) ==
  /\ t \in Queued
  /\ \A u \in Queued : t <= u
  /\ futures' =
       [futures EXCEPT ![t] =
          LET tk == [futures[t] EXCEPT !.st = "running"]
          IN  IF tk.fn = "create_namespace_with_kvs"
              THEN enter_unit([tk EXCEPT !.level = "flat"], tk.args)
              ELSE enter_tree(tk)]
  /\ UNCHANGED <<args, curl, pc, exitCode, tasks, collected, completed, out, faults, probe, service, history, console>>

\* Mutant of StartTask: the pool runs one work item at a time, whatever
\* --workers says.
StartTask_one_worker(t) ==
  /\ t \in Queued
  /\ \A u \in Queued : t <= u
  /\ Cardinality(Running) < 1
  /\ args.workers > 0
  /\ futures' =
       [futures EXCEPT ![t] =
          LET tk == [futures[t] EXCEPT !.st = "running"]
          IN  IF tk.fn = "create_namespace_with_kvs"
              THEN enter_unit([tk EXCEPT !.level = "flat"], tk.args)
              ELSE enter_tree(tk)]
  /\ UNCHANGED <<args, curl, pc, exitCode, tasks, collected, completed, out, faults, probe, service, history, console>>

\* Mutant of StartTask: the pool keeps one of its workers idle.
StartTask_off_by_one(t) ==
  /\ t \in Queued
  /\ \A u \in Queued : t <= u
  /\ Cardinality(Running) + 1 < args.workers
  /\ futures' =
       [futures EXCEPT ![t] =
          LET tk == [futures[t] EXCEPT !.st = "running"]
          IN  IF tk.fn = "create_namespace_with_kvs"
              THEN enter_unit([tk EXCEPT !.level = "flat"], tk.args)
              ELSE enter_tree(tk)]
  /\ UNCHANGED <<args, curl, pc, exitCode, tasks, collected, completed, out, faults, probe, service, history, console>>

\* A pool thread takes the oldest queued work item and runs it up to its
\* first run_curl call.
StartTask(t) ==
  /\ t \in Queued
  /\ \A u \in Queued : t <= u
  /\ Cardinality(Running) < args.workers
  /\ futures' =
       [futures EXCEPT ![t] =
          LET tk == [futures[t] EXCEPT !.st = "running"]
          IN  IF tk.fn = "create_namespace_with_kvs"
              THEN enter_unit([tk EXCEPT !.level = "flat"], tk.args)
              ELSE enter_tree(tk)]
  /\ UNCHANGED <<args, curl, pc, exitCode, tasks, collected, completed, out, faults, probe, service, history, console>>

\* run_curl up to subprocess.run: the request goes out, or curl is not
\* found and sys.exit(1) raises SystemExit in the pool thread.
IssueRequest(t) ==
  /\ t \in Running
  /\ ~futures[t].inflight
  /\ futures' =
       [futures EXCEPT ![t] =
          IF curl.found
          THEN [@ EXCEPT !.inflight = TRUE,
                         !.reqs = Append(@, [req |-> next_request(futures[t]),
                                             returned |-> FALSE, code |-> 0])]
          ELSE [@ EXCEPT !.st = "exited",
                         !.log = Append(@, Line("CURL_INTROUVABLE", <<>>, <<>>, 1))]]
  /\ UNCHANGED <<args, curl, pc, exitCode, tasks, collected, completed, out, faults, probe, service, history, console>>

\* What the return of run_curl (or its exception) makes of the work item
\* whose request was in flight.
on_return(f, resp) ==
  LET n == Len(f.reqs)
      code == run_curl(resp.out).code
      tk == [f EXCEPT !.inflight = FALSE,
                      !.reqs[n].returned = TRUE,
                      !.reqs[n].code = code]
  IN  IF resp.raises
      THEN [f EXCEPT !.inflight = FALSE, !.st = "raised"]
      ELSE IF tk.phase = "ns" THEN on_ns_return(tk, code)
      ELSE on_kv_return(tk, code)

\* subprocess.run returns (or raises): the unit goes on to its next request
\* or to its end.
ReturnRequest(t) ==
  /\ t \in Running
  /\ futures[t].inflight
  /\ \E resp \in {curl.base} \cup FaultResponses :
       /\ resp # curl.base => faults < MaxFaults
       /\ faults' = IF resp # curl.base THEN faults + 1 ELSE faults
       /\ futures' = [futures EXCEPT ![t] = on_return(@, resp)]
  /\ UNCHANGED <<args, curl, pc, exitCode, tasks, collected, completed, out, probe, service, history, console>>

\* Mutant of Collect: the exception of a work item is not caught.
Collect_uncaught(t) ==
  /\ pc = "as_completed"
  /\ t \in 1..Len(futures)
  /\ t \notin collected
  /\ Finished(futures[t])
  /\ collected' = collected \cup {t}
  /\ completed' = completed + 1
  /\ LET f == futures[t]
         total == Len(tasks)
     IN  IF f.st = "done"
         THEN /\ out' = Append(out,
                   IF args.depth = 2
                   THEN MainLine("PROGRESS", completed + 1, total, <<>>, 0)
                   ELSE MainLine("PROGRESS", completed + 1, total, f.label,
                                 Len(f.tree.children)))
              /\ pc' = pc
         ELSE /\ out' = out
              /\ pc' = "unwind"
  /\ UNCHANGED <<args, curl, exitCode, tasks, futures, faults, probe, service, history, console>>

\* Mutant of Collect: the counter is advanced after future.result(), so only
\* for a work item that did not raise.
Collect_count_success(t) ==
  /\ pc = "as_completed"
  /\ t \in 1..Len(futures)
  /\ t \notin collected
  /\ Finished(futures[t])
  /\ collected' = collected \cup {t}
  /\ LET f == futures[t]
         total == Len(tasks)
     IN  IF f.st = "done"
         THEN /\ completed' = completed + 1
              /\ out' = Append(out,
                   IF args.depth = 2
                   THEN MainLine("PROGRESS", completed + 1, total, <<>>, 0)
                   ELSE MainLine("PROGRESS", completed + 1, total, f.label,
                                 Len(f.tree.children)))
              /\ pc' = pc
         ELSE IF f.st = "raised"
         THEN /\ completed' = completed
              /\ out' = Append(out,
                   MainLine("EXCEPTION", completed, total, f.label, 0))
              /\ pc' = pc
         ELSE /\ completed' = completed
              /\ out' = out
              /\ pc' = "unwind"
  /\ UNCHANGED <<args, curl, exitCode, tasks, futures, faults, probe, service, history, console>>

\* Mutant of Collect: the progress line is printed before future.result()
\* is called.
Collect_progress_first(t) ==
  /\ pc = "as_completed"
  /\ t \in 1..Len(futures)
  /\ t \notin collected
  /\ Finished(futures[t])
  /\ collected' = collected \cup {t}
  /\ completed' = completed + 1
  /\ LET f == futures[t]
         total == Len(tasks)
         progress == IF args.depth = 2
                     THEN MainLine("PROGRESS", completed + 1, total, <<>>, 0)
                     ELSE MainLine("PROGRESS", completed + 1, total, f.label,
                                   Len(f.tree.children))
     IN  IF f.st = "done"
         THEN /\ out' = Append(out, progress)
              /\ pc' = pc
         ELSE IF f.st = "raised"
         THEN /\ out' = Append(Append(out, progress),
                   MainLine("EXCEPTION", completed + 1, total, f.label, 0))
              /\ pc' = pc
         ELSE /\ out' = Append(out, progress)
              /\ pc' = "unwind"
  /\ UNCHANGED <<args, curl, exitCode, tasks, futures, faults, probe, service, history, console>>

\* One iteration of `for future in as_completed(...)`.
Collect(t) ==
  /\ pc = "as_completed"
  /\ t \in 1..Len(futures)
  /\ t \notin collected
  /\ Finished(futures[t])
  /\ collected' = collected \cup {t}
  /\ completed' = completed + 1
  /\ LET f == futures[t]
         total == Len(tasks)
     IN  IF f.st = "done"
         THEN /\ out' = Append(out,
                   IF args.depth = 2
                   THEN MainLine("PROGRESS", completed + 1, total, <<>>, 0)
                   ELSE MainLine("PROGRESS", completed + 1, total, f.label,
                                 Len(f.tree.children)))
              /\ pc' = pc
         ELSE IF f.st = "raised"
         THEN /\ out' = Append(out,
                   MainLine("EXCEPTION", completed + 1, total, f.label, 0))
              /\ pc' = pc
         ELSE /\ out' = out
              /\ pc' = "unwind"
  /\ UNCHANGED <<args, curl, exitCode, tasks, futures, faults, probe, service, history, console>>

\* Mutant of Finish: the loop ends with the first work item collected and
\* the pool is not waited for.
Finish_early ==
  /\ pc = "as_completed"
  /\ collected # {}
  /\ pc' = "exited"
  /\ exitCode' = 0
  /\ out' = Append(out, MainLine("TERMINE", completed, Len(tasks), <<>>, 0))
  /\ UNCHANGED <<args, curl, tasks, futures, collected, completed, faults, probe, service, history, console>>

\* as_completed is exhausted: the with block ends, "Terminé." is printed.
Finish ==
  /\ pc = "as_completed"
  /\ collected = 1..Len(futures)
  /\ pc' = "exited"
  /\ exitCode' = 0
  /\ out' = Append(out, MainLine("TERMINE", completed, Len(tasks), <<>>, 0))
  /\ UNCHANGED <<args, curl, tasks, futures, collected, completed, faults, probe, service, history, console>>

\* SystemExit leaves the with block: shutdown(wait=True) waits for every
\* work item, the queued ones included, then the process exits.
Unwind ==
  /\ pc = "unwind"
  /\ \A t \in 1..Len(futures) : Finished(futures[t])
  /\ pc' = "exited"
  /\ exitCode' = 1
  /\ UNCHANGED <<args, curl, tasks, futures, collected, completed, out, faults, probe, service, history, console>>

Next ==
  \/ Validate
  \/ CreateExecutor
  \/ Submit
  \/ \E t \in 1..Len(futures) : StartTask(t)
  \/ \E t \in 1..Len(futures) : IssueRequest(t)
  \/ \E t \in 1..Len(futures) : ReturnRequest(t)
  \/ \E t \in 1..Len(futures) : Collect(t)
  \/ Finish
  \/ Unwind

Spec == Init /\ [][Next]_vars

\* ------------------------------------------- naming, with wider start indexes
\* Depth-2 runs over more values of --start-index and -x, against a service
\* that gives every request of the run the same answer.
WideArgs ==
  [addr : BOOLEAN, token : BOOLEAN, n : 0..MaxN, x : KvsValues,
   depth : {2}, ns_level2 : {1}, start_index : WideStartIndexValues,
   workers : WorkersValues]

InitWide ==
  /\ args \in WideArgs
  /\ curl \in [found : BOOLEAN, base : Responses]
  /\ pc = "start"
  /\ exitCode = 0 - 1
  /\ tasks = <<>>
  /\ futures = <<>>
  /\ collected = {}
  /\ completed = 0
  /\ out = <<>>
  /\ faults = MaxFaults
  /\ probe = NoProbe
  /\ service = NoService
  /\ history = FirstRun
  /\ console = NoConsole

SpecWide == InitWide /\ [][Next]_vars

\* ------------------------------- one curl output through run_curl and the chains
OutAlphabet == {"0", "1", "2", "4", "5", "9", "b"}

ProbeOuts == UNION {[1..len -> OutAlphabet] : len \in 0..MaxOutLen}

ProbePath == RootSlash \o ns_prefix \o <<"-", "0", "0", "1">>

ProbeMount == mount_prefix \o <<"-", "0", "0", "1">>

InitClassify ==
  /\ args = [addr |-> TRUE, token |-> TRUE, n |-> 1, x |-> 1, depth |-> 2,
             ns_level2 |-> 1, start_index |-> 1, workers |-> 1]
  /\ curl = [found |-> TRUE, base |-> [raises |-> FALSE, out |-> <<>>]]
  /\ pc = "start"
  /\ exitCode = 0 - 1
  /\ tasks = <<>>
  /\ futures = <<>>
  /\ collected = {}
  /\ completed = 0
  /\ out = <<>>
  /\ faults = 0
  /\ probe \in [out : ProbeOuts, done : {FALSE}, code : {0}, ns : {""},
                kv : {""}, ns_created : {FALSE}]
  /\ service = NoService
  /\ history = FirstRun
  /\ console = NoConsole

\* The output goes through run_curl, and its code through the if/elif chain
\* of the namespace and through that of the mounts.
Classify ==
  /\ ~probe.done
  /\ probe' =
       LET code == run_curl(probe.out).code
           b == ns_branch(code, ProbePath)
       IN  [out |-> probe.out, done |-> TRUE, code |-> code,
            ns |-> b.line.tag, ns_created |-> b.ns_created,
            kv |-> kv_branch(code, ProbePath, ProbeMount).tag]
  /\ UNCHANGED <<args, curl, pc, exitCode, tasks, futures, collected, completed, out, faults, service, history, console>>

NextClassify == Classify

SpecClassify == InitClassify /\ [][NextClassify]_vars

\* ------------------------------------------------------------------- claims
Futs == 1..Len(futures)

ReqIdx(t) == 1..Len(futures[t].reqs)

\* The namespace a namespace-create request creates, as mount requests
\* address it: its name under root, parent/name under a parent.
NsPath(r) == IF r.header = Root THEN r.url ELSE r.header \o <<"/">> \o r.url

IsSuccess(code) == code \in {200, 201, 204}

IsFailedOrRejected(code) == ~IsSuccess(code) /\ code # 409

\* C1: a child namespace-create of parent P is issued only after P's own
\* namespace-create was issued and has returned, and a mount-create of a
\* namespace only after that namespace's namespace-create has returned,
\* whatever code the earlier request returned.
C1_OrderAfter ==
  \A t \in Futs : \A i \in ReqIdx(t) :
    LET r == futures[t].reqs[i].req
    IN  /\ r.op = "mounts" =>
             \E i2 \in 1..(i - 1) :
               LET p == futures[t].reqs[i2]
               IN  /\ p.req.op = "namespaces"
                   /\ NsPath(p.req) = r.header
                   /\ p.returned
        /\ (r.op = "namespaces" /\ r.header # Root) =>
             \E i2 \in 1..(i - 1) :
               LET p == futures[t].reqs[i2]
               IN  /\ p.req.op = "namespaces"
                   /\ p.req.header = Root
                   /\ p.req.url = r.header
                   /\ p.returned

\* A child's mount-create is in flight in a tree whose parent namespace-create
\* returned a failure code.
C1_Witness ==
  \E t \in Futs :
    LET rs == futures[t].reqs
    IN  /\ Len(rs) >= 1
        /\ rs[1].returned /\ IsFailedOrRejected(rs[1].code)
        /\ \E i \in ReqIdx(t) :
             /\ rs[i].req.op = "mounts"
             /\ rs[i].req.header # rs[1].req.url
             /\ ~rs[i].returned

\* C2: the code a namespace-create returned never gates later work: a unit
\* that ran to its end issued all x mount-creates of each of its namespaces,
\* right after that namespace's create, and a tree that ran to its end issued
\* the namespace-create of all ns_level2 children, whatever codes came back.
C2_NeverGated ==
  \A t \in Futs :
    futures[t].st = "done" =>
      LET rs == futures[t].reqs
      IN  /\ \A i \in ReqIdx(t) :
               rs[i].req.op = "namespaces" =>
                 \A m \in 1..args.x :
                   /\ i + m <= Len(rs)
                   /\ rs[i + m].req.op = "mounts"
                   /\ rs[i + m].req.header = NsPath(rs[i].req)
          /\ args.depth = 3 =>
               Cardinality({i \in ReqIdx(t) :
                              /\ rs[i].req.op = "namespaces"
                              /\ rs[i].req.header = rs[1].req.url})
                 = args.ns_level2

\* A tree ran to its end although its parent namespace-create failed.
C2_Witness ==
  \E t \in Futs :
    LET rs == futures[t].reqs
    IN  /\ futures[t].st = "done"
        /\ args.depth = 3 /\ args.ns_level2 >= 1 /\ args.x >= 1
        /\ IsFailedOrRejected(rs[1].code)
        /\ rs[Len(rs)].req.op = "mounts"
        /\ rs[Len(rs)].req.header # rs[1].req.url

\* C6: at most `workers` work items are started and not finished, and a
\* queued work item has issued no request.
C6_PoolBound ==
  /\ Cardinality({t \in Futs : futures[t].st = "running"}) <= args.workers
  /\ \A t \in Futs :
       futures[t].st = "queued" =>
         futures[t].reqs = <<>> /\ ~futures[t].inflight

\* The pool is full, with a request in flight, while a work item waits.
C6_Witness ==
  /\ Cardinality({t \in Futs : futures[t].st = "running"}) = args.workers
  /\ \E t \in Futs : futures[t].st = "queued"
  /\ \E t \in Futs : futures[t].inflight

\* The requests a unit (depth 2) or a tree (depth 3) has to issue.
FullCount ==
  IF args.depth = 2 THEN 1 + args.x ELSE (1 + args.ns_level2) * (1 + args.x)

RanAll(t) ==
  /\ futures[t].st = "done"
  /\ Len(futures[t].reqs) = FullCount
  /\ \A i \in ReqIdx(t) : futures[t].reqs[i].returned

Count(op, scope_is_root) ==
  Cardinality({ti \in {<<t, i>> : t \in Futs, i \in 1..FullCount} :
                 /\ ti[2] \in ReqIdx(ti[1])
                 /\ futures[ti[1]].reqs[ti[2]].req.op = op
                 /\ (op = "namespaces" =>
                       (futures[ti[1]].reqs[ti[2]].req.header = Root)
                          = scope_is_root)})

\* C4: a depth-3 run in which no unit raises ends having issued exactly n
\* parent namespace-creates, n * ns_level2 child namespace-creates and
\* (n + n * ns_level2) * x mount-creates; at no time has a request been
\* issued twice, whatever came back.
C4_ExactCounts ==
  /\ \A t \in Futs, u \in Futs :
       \A i \in ReqIdx(t), j \in ReqIdx(u) :
         futures[t].reqs[i].req = futures[u].reqs[j].req => t = u /\ i = j
  /\ \A t \in Futs : Len(futures[t].reqs) <= FullCount
  /\ ( /\ args.depth = 3
       /\ pc = "exited" /\ exitCode = 0
       /\ \A t \in Futs : futures[t].st = "done" ) =>
       /\ Count("namespaces", TRUE) = args.n
       /\ Count("namespaces", FALSE) = args.n * args.ns_level2
       /\ Count("mounts", TRUE) = (args.n + args.n * args.ns_level2) * args.x

\* Two trees of one child and one mount each ran to their end, one request
\* having failed.
C4_Witness ==
  /\ args.depth = 3 /\ args.n = 2 /\ args.ns_level2 = 1 /\ args.x = 1
  /\ pc = "exited" /\ exitCode = 0
  /\ \A t \in Futs : futures[t].st = "done"
  /\ \E t \in Futs : \E i \in ReqIdx(t) :
       IsFailedOrRejected(futures[t].reqs[i].code)
  /\ Count("mounts", TRUE) = 4

\* C7: when a unit or tree raised, the run still ends with exit code 0, the
\* exception was reported at the collection point with the name of the unit,
\* and every other unit ran all of its requests to their return.
C7_ExceptionIsolated ==
  (pc = "exited" /\ \E t \in Futs : futures[t].st = "raised") =>
    /\ exitCode = 0
    /\ \A t \in Futs :
         IF futures[t].st = "raised"
         THEN /\ t \in collected
              /\ \E l \in 1..Len(out) :
                   out[l].tag = "EXCEPTION" /\ out[l].label = futures[t].label
         ELSE RanAll(t)

\* A run ended in which one unit raised and another ran all its requests.
C7_Witness ==
  /\ pc = "exited"
  /\ \E t \in Futs, u \in Futs :
       /\ futures[t].st = "raised"
       /\ RanAll(u) /\ Len(futures[u].reqs) >= 2

\* C8: the process ends only when every task was submitted and every
\* submitted work item has run to its end or raised, no request in flight.
C8_DrainBeforeReturn ==
  (pc = "exited" /\ futures # <<>>) =>
    /\ Len(futures) = Len(tasks)
    /\ \A t \in Futs : Finished(futures[t]) /\ ~futures[t].inflight

\* The final line was printed after two work items, one of which raised.
C8_Witness ==
  /\ pc = "exited"
  /\ Len(out) >= 1 /\ out[Len(out)].tag = "TERMINE"
  /\ Len(futures) >= 2
  /\ \E t \in Futs : futures[t].st = "raised"
  /\ \E t \in Futs : futures[t].st = "done"

Invalid(a) == ~a.addr \/ ~a.token \/ a.n <= 0 \/ a.x < 0

\* C9: the exit code is 2 when the configuration is invalid, 1 when curl
\* cannot be invoked, and 0 in every other run.
C9_ExitCodePolicy ==
  pc = "exited" =>
    exitCode = IF Invalid(args) THEN 2
               ELSE IF ~curl.found THEN 1
               ELSE 0

\* C10: with an empty address or token, n <= 0 or x < 0, the process exits
\* with code 2 and neither builds nor submits a task nor issues a request.
C10_ValidationFirst ==
  Invalid(args) =>
    /\ tasks = <<>>
    /\ futures = <<>>
    /\ pc \in {"start", "exited"}
    /\ pc = "exited" => exitCode = 2

\* The run was refused because x is negative, everything else being valid.
C10_Witness ==
  /\ pc = "exited" /\ exitCode = 2
  /\ args.addr /\ args.token /\ args.n > 0 /\ args.workers > 0
  /\ args.x < 0
  /\ futures = <<>>

\* The outcome the log line names.
Outcome(tag) ==
  CASE tag = "OK" -> "Created"
    [] tag = "EXISTE" -> "AlreadyExists"
    [] tag = "WARN" -> "Rejected"
    [] tag = "ERREUR" -> "Failed"

\* The status of an output: its last three characters, or all of it when it
\* is shorter. It is a number when it is not empty and all digits.
StatusIsNumber(o) ==
  Len(o) > 0 /\ \A i \in 1..Len(o) : i > Len(o) - 3 => o[i] \in DigitSet

\* The digit `back` places from the end of o, 0 when o is too short.
DigitFromEnd(o, back) ==
  IF Len(o) > back THEN DigitVal(o[Len(o) - back]) ELSE 0

\* C3: the namespace chain and the mount chain classify every code alike:
\* 200, 201, 204 Created, 409 AlreadyExists, 400 Rejected, any other code
\* Failed; an output whose status is not a number is reported as code -1 and
\* so Failed, one whose status is a number as that number.
C3_Classification ==
  probe.done =>
    /\ Outcome(probe.ns) = Outcome(probe.kv)
    /\ Outcome(probe.ns) =
         IF probe.code \in {200, 201, 204} THEN "Created"
         ELSE IF probe.code = 409 THEN "AlreadyExists"
         ELSE IF probe.code = 400 THEN "Rejected"
         ELSE "Failed"
    /\ ~StatusIsNumber(probe.out) =>
         probe.code = 0 - 1 /\ Outcome(probe.ns) = "Failed"
    /\ StatusIsNumber(probe.out) =>
         probe.code = 100 * DigitFromEnd(probe.out, 2)
                      + 10 * DigitFromEnd(probe.out, 1)
                      + DigitFromEnd(probe.out, 0)

\* A body followed by 409 was classified AlreadyExists by both chains.
C3_Witness ==
  /\ probe.done
  /\ probe.out = <<"b", "4", "0", "9">>
  /\ probe.code = 409
  /\ probe.ns = "EXISTE" /\ probe.kv = "EXISTE"

\* The number of decimal digits of v >= 0.
RECURSIVE DigitCount(_)
DigitCount(v) == IF v < 10 THEN 1 ELSE 1 + DigitCount(v \div 10)

\* max(3, digitCount(startIndex + count - 1))
PadWidth(start, count) == max(3, DigitCount(start + count - 1))

\* The w decimal digits of i, leading zeros included (0 <= i < 10^w).
ZeroPadded(i, w) == [d \in 1..w |-> DigitChars[((i \div (10 ^ (w - d))) % 10) + 1]]

\* The requests of the unit of index i of a depth-2 run.
ExpectedUnit(i) ==
  LET name == <<"ns", "-">> \o ZeroPadded(i, PadWidth(args.start_index, args.n))
  IN  <<[op |-> "namespaces", url |-> name, header |-> <<"root">>]>>
      \o [m \in 1..args.x |->
            [op |-> "mounts",
             url |-> <<"kv", "-">>
                     \o ZeroPadded(args.start_index + m - 1,
                                   PadWidth(args.start_index, args.x)),
             header |-> name]]

\* C5: a depth-2 run issues, for the unit of each index start_index ..
\* start_index + n - 1 (and for no other), one namespace-create scoped to root
\* and named ns-<index padded to max(3, digits of the last index)>, then the
\* x mount-creates kv-<padded start_index .. start_index + x - 1> in that
\* namespace: a prefix of that list while the unit runs, the whole list when
\* the run ends without a unit having raised.
C5_FlatNames ==
  args.depth = 2 =>
    /\ Len(futures) <= args.n
    /\ \A t \in Futs :
         LET rs == futures[t].reqs
             e == ExpectedUnit(args.start_index + t - 1)
         IN  /\ Len(rs) <= Len(e)
             /\ \A i \in 1..Len(rs) : rs[i].req = e[i]
             /\ futures[t].st = "done" => Len(rs) = 1 + args.x
    /\ (pc = "exited" /\ exitCode = 0) => Len(futures) = args.n

\* Indexes 999 and 1000 are four characters wide: ns-0999 with kv-0999 and
\* kv-1000, then ns-1000.
C5_Witness ==
  /\ args.depth = 2 /\ args.start_index = 999 /\ args.n = 2 /\ args.x = 2
  /\ pc = "exited" /\ exitCode = 0
  /\ \A t \in Futs : futures[t].st = "done"
  /\ futures[1].reqs[1].req.url = <<"ns", "-", "0", "9", "9", "9">>
  /\ futures[1].reqs[3].req.url = <<"kv", "-", "1", "0", "0", "0">>
  /\ futures[2].reqs[1].req.url = <<"ns", "-", "1", "0", "0", "0">>

\* ---------------------------------------------------------------------------
\* Transport unavailable

SomeExited == \E t \in Futs : futures[t].st = "exited"

\* C11: from the moment a request has found curl missing, no worker starts a
\* queued work item and no worker attempts a further request: the work items
\* that were queued stay queued, and the ones that were running do not reach
\* run_curl.
C11_AbortAtFirstFailure ==
  [][SomeExited =>
       \A u \in Futs :
         /\ futures[u].st = "queued" => futures'[u].st = "queued"
         /\ futures[u].st = "running" => futures'[u].st = "running"]_vars

\* ------------------------------------------------- the same command line twice
\* The service keeps what the first run created, and answers the second run
\* from it: 201 for a target it does not hold, and what it answers for a
\* namespace, or a mount, it already holds: 409 or 400.
ExistsOuts == { <<"4", "0", "9">>, <<"b", "4", "0", "0">> }

CreatedOut == <<"b", "2", "0", "1">>

service_out(r) ==
  IF r \in service.existing THEN service.answer[r.op] ELSE CreatedOut

AllRequests ==
  UNION {{futures[t].reqs[i].req : i \in ReqIdx(t)} : t \in Futs}

InitRerun ==
  /\ args \in Args
  /\ curl \in [found : BOOLEAN, base : {[raises |-> FALSE, out |-> CreatedOut]}]
  /\ pc = "start"
  /\ exitCode = 0 - 1
  /\ tasks = <<>>
  /\ futures = <<>>
  /\ collected = {}
  /\ completed = 0
  /\ out = <<>>
  /\ faults = MaxFaults
  /\ probe = NoProbe
  /\ service \in [existing : {{}},
                  answer : [namespaces : ExistsOuts, mounts : ExistsOuts],
                  hung : {{}}]
  /\ history = FirstRun
  /\ console = NoConsole

\* subprocess.run returns what the service answers to the request in flight.
ServiceReturn(t) ==
  /\ t \in Running
  /\ futures[t].inflight
  /\ LET r == futures[t].reqs[Len(futures[t].reqs)].req
     IN  /\ futures' =
              [futures EXCEPT ![t] =
                 on_return(@, [raises |-> FALSE, out |-> service_out(r)])]
         /\ service' = [service EXCEPT !.existing = @ \cup {r}]
  /\ UNCHANGED <<args, curl, pc, exitCode, tasks, collected, completed, out, faults, probe, history, console>>

\* The process has ended with 0; the same command line is started again.
Rerun ==
  /\ pc = "exited"
  /\ exitCode = 0
  /\ history.run = 1
  /\ history' = [run |-> 2, first |-> AllRequests]
  /\ pc' = "start"
  /\ exitCode' = 0 - 1
  /\ tasks' = <<>>
  /\ futures' = <<>>
  /\ collected' = {}
  /\ completed' = 0
  /\ out' = <<>>
  /\ UNCHANGED <<args, curl, faults, probe, service, console>>

NextRerun ==
  \/ Validate
  \/ CreateExecutor
  \/ Submit
  \/ \E t \in 1..Len(futures) : StartTask(t)
  \/ \E t \in 1..Len(futures) : IssueRequest(t)
  \/ \E t \in 1..Len(futures) : ServiceReturn(t)
  \/ \E t \in 1..Len(futures) : Collect(t)
  \/ Finish
  \/ Unwind
  \/ Rerun

SpecRerun == InitRerun /\ [][NextRerun]_vars

UnitTags == {"OK", "EXISTE", "WARN", "ERREUR"}

\* C12: run a second time against the service the first run left, the same
\* command line issues requests of the first run only, and all of them by the
\* time it ends; every one that returned brought 409 or 400, every line a unit
\* logs for a namespace or a mount reports AlreadyExists or Rejected, and the
\* run ends with exit code 0.
C12_RerunIdempotent ==
  history.run = 2 =>
    /\ AllRequests \subseteq history.first
    /\ \A t \in Futs :
         /\ \A i \in ReqIdx(t) :
              futures[t].reqs[i].returned => futures[t].reqs[i].code \in {409, 400}
         /\ \A l \in 1..Len(futures[t].log) :
              futures[t].log[l].tag \in UnitTags =>
                Outcome(futures[t].log[l].tag) \in {"AlreadyExists", "Rejected"}
    /\ pc = "exited" => exitCode = 0 /\ AllRequests = history.first

\* The second run of a tree with a child and a mount has ended: namespaces
\* were answered 409, mounts 400.
C12_Witness ==
  /\ history.run = 2
  /\ pc = "exited"
  /\ args.depth = 3 /\ args.ns_level2 = 1 /\ args.x = 1
  /\ Cardinality(history.first) = 4 * args.n
  /\ service.answer.namespaces = <<"4", "0", "9">>
  /\ service.answer.mounts = <<"b", "4", "0", "0">>
  /\ \E t \in Futs :
       /\ \E l \in 1..Len(futures[t].log) : futures[t].log[l].tag = "EXISTE"
       /\ \E l \in 1..Len(futures[t].log) : futures[t].log[l].tag = "WARN"

\* ---------------------------------------------------------------------------
\* Order within a tree

\* The request at position p of the tree of parent index i: the tree is laid
\* out as 1 + ns_level2 blocks of 1 + x requests, block 0 the parent's, block
\* u the child's of index start_index + u - 1; a block is the namespace-create
\* followed by the mount-creates of indexes start_index, start_index + 1, ...
ExpectedTreeRequest(i, p) ==
  LET u == (p - 1) \div (1 + args.x)
      s == (p - 1) % (1 + args.x)
      parent == <<"ns">> \o ZeroPadded(i, PadWidth(args.start_index, args.n))
      child == parent \o <<"-">>
               \o ZeroPadded(args.start_index + u - 1,
                             PadWidth(args.start_index, args.ns_level2))
  IN  IF s = 0
      THEN [op |-> "namespaces",
            url |-> IF u = 0 THEN parent ELSE child,
            header |-> IF u = 0 THEN <<"root">> ELSE parent]
      ELSE [op |-> "mounts",
            url |-> <<"kv", "-">>
                    \o ZeroPadded(args.start_index + s - 1,
                                  PadWidth(args.start_index, args.x)),
            header |-> IF u = 0 THEN parent ELSE parent \o <<"/">> \o child]

\* C13: a work item has at most one request that has not returned, and it is
\* the last one it issued; the requests of a depth-3 tree are, in order, a
\* prefix of: the parent's namespace-create, the parent's mount-creates in
\* ascending index order, then for each child in ascending index order its
\* namespace-create followed by its mount-creates in ascending index order.
C13_SequentialTree ==
  \A t \in Futs :
    LET rs == futures[t].reqs
    IN  /\ \A i \in 1..Len(rs) : ~rs[i].returned => i = Len(rs)
        /\ futures[t].inflight =>
             Len(rs) > 0 /\ ~rs[Len(rs)].returned /\ futures[t].st = "running"
        /\ args.depth = 3 =>
             /\ Len(rs) <= (1 + args.ns_level2) * (1 + args.x)
             /\ \A p \in 1..Len(rs) :
                  rs[p].req = ExpectedTreeRequest(args.start_index + t - 1, p)

\* A tree of two children with two mounts per namespace has issued its nine
\* requests.
C13_Witness ==
  /\ args.depth = 3 /\ args.ns_level2 = 2 /\ args.x = 2
  /\ \E t \in Futs : futures[t].st = "done" /\ Len(futures[t].reqs) = 9

\* ------------------------------------------------ a request that never returns
\* subprocess.run has no timeout: the service may leave a request unanswered
\* for ever. The threads are scheduled fairly: the main thread goes on
\* whenever it can, a pool thread takes a queued work item whenever it is
\* idle, and a request the service answers returns.
MaxHung == 1

\* The command lines that pass validation and get a pool.
PoolArgs == {a \in Args : a.addr /\ a.token /\ a.n > 0 /\ a.x >= 0 /\ a.workers > 0}

InitHang ==
  /\ args \in PoolArgs
  /\ curl \in [found : BOOLEAN, base : FaultResponses]
  /\ pc = "start"
  /\ exitCode = 0 - 1
  /\ tasks = <<>>
  /\ futures = <<>>
  /\ collected = {}
  /\ completed = 0
  /\ out = <<>>
  /\ faults = MaxFaults
  /\ probe = NoProbe
  /\ service = NoService
  /\ history = FirstRun
  /\ console = NoConsole

\* The service will never answer the request work item t has in flight.
Hang(t) ==
  /\ t \in Running
  /\ futures[t].inflight
  /\ t \notin service.hung
  /\ Cardinality(service.hung) < MaxHung
  /\ service' = [service EXCEPT !.hung = @ \cup {t}]
  /\ UNCHANGED <<args, curl, pc, exitCode, tasks, futures, collected, completed, out, faults, probe, history, console>>

\* subprocess.run returns, the service having answered.
ReturnAnswered(t) ==
  /\ t \notin service.hung
  /\ ReturnRequest(t)

MainThread ==
  \/ Validate
  \/ CreateExecutor
  \/ Submit
  \/ \E t \in 1..Len(futures) : Collect(t)
  \/ Finish
  \/ Unwind

PoolThread(t) ==
  \/ StartTask(t)
  \/ IssueRequest(t)
  \/ ReturnAnswered(t)

NextHang ==
  \/ Validate
  \/ CreateExecutor
  \/ Submit
  \/ \E t \in 1..Len(futures) : StartTask(t)
  \/ \E t \in 1..Len(futures) : IssueRequest(t)
  \/ \E t \in 1..Len(futures) : ReturnAnswered(t)
  \/ \E t \in 1..Len(futures) : Hang(t)
  \/ \E t \in 1..Len(futures) : Collect(t)
  \/ Finish
  \/ Unwind

\* Some thread that can take a step takes one: the process is not suspended
\* for ever. Every step of a thread is a step towards its end, so no thread
\* can keep the others waiting by itself.
Fairness == WF_vars(MainThread \/ \E t \in 1..Len(futures) : PoolThread(t))

SpecHang == InitHang /\ [][NextHang]_vars /\ Fairness

\* C14: while a request is left unanswered the orchestrator does not return;
\* and in a run that passed validation with a pool of at least one worker,
\* every work item is eventually submitted and, if fewer work items hang than
\* the pool has workers, every work item other than the hung ones is
\* eventually started and ends.
C14_HangIsolated ==
  /\ [](service.hung # {} => pc # "exited")
  /\ (~Invalid(args) /\ args.workers >= 1) =>
       <>[]( /\ Len(futures) = args.n
             /\ Cardinality(service.hung) < args.workers =>
                  \A t \in Futs : t \in service.hung \/ Finished(futures[t]) )

\* The first work item hangs on a request; a later one, started after it, has
\* run all its requests and has been collected.
C14_Witness ==
  /\ 1 \in service.hung
  /\ pc = "as_completed"
  /\ \E u \in collected : u > 1 /\ RanAll(u) /\ Len(futures[u].reqs) >= 2

\* ------------------------------------------------------- print_lock, safe_print
\* The pool threads and the main thread, while it collects, call safe_print
\* in any order. print(msg) writes msg, then the line end, as two writes to
\* sys.stdout. The one print a pool thread makes outside safe_print is
\* run_curl's diagnostic, to sys.stderr.
PrintThreads == {"main", "w1", "w2"}

MaxLines == 3

InitPrint ==
  /\ args \in {a \in PoolArgs : a.depth = 2 /\ a.n = 1 /\ a.x = 0 /\ a.workers = 2}
  /\ curl \in [found : BOOLEAN, base : {[raises |-> FALSE, out |-> <<"b", "2", "0", "1">>]}]
  /\ pc = "as_completed"
  /\ exitCode = 0 - 1
  /\ tasks = <<>>
  /\ futures = <<>>
  /\ collected = {}
  /\ completed = 0
  /\ out = <<>>
  /\ faults = MaxFaults
  /\ probe = NoProbe
  /\ service = NoService
  /\ history = FirstRun
  /\ console = [NoConsole EXCEPT !.at = [th \in PrintThreads |-> "idle"]]

\* A thread calls safe_print(msg) and reaches the with statement.
safe_print(th) ==
  /\ console.at[th] = "idle"
  /\ console.calls < MaxLines
  /\ console' = [console EXCEPT !.at[th] = "with", !.calls = @ + 1]
  /\ UNCHANGED <<args, curl, pc, exitCode, tasks, futures, collected, completed, out, faults, probe, service, history>>

\* Mutant of acquire: the with statement does not wait for the lock.
acquire_no_wait(th) ==
  /\ console.at[th] = "with"
  /\ console' = [console EXCEPT !.lock = th, !.at[th] = "print"]
  /\ UNCHANGED <<args, curl, pc, exitCode, tasks, futures, collected, completed, out, faults, probe, service, history>>

\* with print_lock: the thread gets the lock once it is free.
acquire(th) ==
  /\ console.at[th] = "with"
  /\ console.lock = "free"
  /\ console' = [console EXCEPT !.lock = th, !.at[th] = "print"]
  /\ UNCHANGED <<args, curl, pc, exitCode, tasks, futures, collected, completed, out, faults, probe, service, history>>

\* print(msg): msg is written.
print_msg(th) ==
  /\ console.at[th] = "print"
  /\ console' = [console EXCEPT !.at[th] = "end",
                                !.stdout = Append(@, [by |-> th, part |-> "msg"])]
  /\ UNCHANGED <<args, curl, pc, exitCode, tasks, futures, collected, completed, out, faults, probe, service, history>>

\* print(msg): the line end is written.
print_end(th) ==
  /\ console.at[th] = "end"
  /\ console' = [console EXCEPT !.at[th] = "exit",
                                !.stdout = Append(@, [by |-> th, part |-> "end"])]
  /\ UNCHANGED <<args, curl, pc, exitCode, tasks, futures, collected, completed, out, faults, probe, service, history>>

\* The with block is left: the lock is released.
release(th) ==
  /\ console.at[th] = "exit"
  /\ console' = [console EXCEPT !.at[th] = "idle",
                                !.lock = IF @ = th THEN "free" ELSE @]
  /\ UNCHANGED <<args, curl, pc, exitCode, tasks, futures, collected, completed, out, faults, probe, service, history>>

\* run_curl in a pool thread does not find curl: print(..., file=sys.stderr),
\* not through safe_print.
print_stderr(th) ==
  /\ th # "main"
  /\ ~curl.found
  /\ console.at[th] = "idle"
  /\ console.calls < MaxLines
  /\ console' = [console EXCEPT !.calls = @ + 1,
                                !.stderr = Append(@, [by |-> th, part |-> "line"])]
  /\ UNCHANGED <<args, curl, pc, exitCode, tasks, futures, collected, completed, out, faults, probe, service, history>>

InSafePrint(th) ==
  \/ acquire(th)
  \/ print_msg(th)
  \/ print_end(th)
  \/ release(th)

NextPrint ==
  \/ \E th \in PrintThreads : safe_print(th)
  \/ \E th \in PrintThreads : acquire(th)
  \/ \E th \in PrintThreads : print_msg(th)
  \/ \E th \in PrintThreads : print_end(th)
  \/ \E th \in PrintThreads : release(th)
  \/ \E th \in PrintThreads : print_stderr(th)

\* A thread inside safe_print that can go on does go on.
SpecPrint ==
  InitPrint /\ [][NextPrint]_vars /\ WF_vars(\E th \in PrintThreads : InSafePrint(th))

InCriticalSection(th) == console.at[th] \in {"print", "end", "exit"}

Target(r) == <<r.op, r.header, r.url>>

\* C16: no two requests of a run address the same target: two
\* namespace-creates differ in the parent scope or in the namespace name, two
\* mount-creates differ in the namespace or in the mount name, whether they
\* come from one work item or from two.
C16_DisjointTargets ==
  \A t \in Futs, u \in Futs :
    \A i \in ReqIdx(t), j \in ReqIdx(u) :
      LET r == futures[t].reqs[i].req
          q == futures[u].reqs[j].req
      IN  (t # u \/ i # j) /\ r.op = q.op =>
            r.header # q.header \/ r.url # q.url

\* Two pool threads each have a mount-create in flight, for the same mount
\* name in two namespaces.
C16_Witness ==
  \E t \in Futs, u \in Futs :
    /\ t # u
    /\ futures[t].inflight /\ futures[u].inflight
    /\ LET r == futures[t].reqs[Len(futures[t].reqs)].req
           q == futures[u].reqs[Len(futures[u].reqs)].req
       IN  /\ r.op = "mounts" /\ q.op = "mounts"
           /\ r.url = q.url
           /\ Target(r) # Target(q)

\* ---------------------------------------------------------------------------
\* Collection

IsCollectorLine(l) == l.tag \in {"PROGRESS", "EXCEPTION"}

CollectorLines == SelectSeq(out, IsCollectorLine)

IsProgressLine(l) == l.tag = "PROGRESS"

\* C17: the collector has handled a work item at most once, and only one that
\* had ended, none of its requests being in flight; the counter is the number
\* of work items handled; every work item handled that had returned (or
\* raised an exception) left one line, the l-th line reporting the counter
\* value l, and the progress lines are as many as the handled work items that
\* returned; when the main thread reaches its end every submitted work item
\* has been handled and the counter is their number.
C17_CollectOnce ==
  /\ completed = Cardinality(collected)
  /\ collected \subseteq Futs
  /\ \A t \in collected :
       /\ Finished(futures[t])
       /\ ~futures[t].inflight
       /\ futures[t].st = "done" =>
            \A i \in ReqIdx(t) : futures[t].reqs[i].returned
  /\ Len(CollectorLines) =
       Cardinality({t \in collected : futures[t].st \in {"done", "raised"}})
  /\ \A l \in 1..Len(CollectorLines) : CollectorLines[l].completed = l
  /\ Len(SelectSeq(out, IsProgressLine)) =
       Cardinality({t \in collected : futures[t].st = "done"})
  /\ (pc = "exited" /\ exitCode = 0) =>
       /\ collected = Futs
       /\ completed = Len(tasks)
       /\ Len(futures) = Len(tasks)

\* Two trees were collected in the order they ended, the second submitted
\* first: the lines report 1/2 then 2/2.
C17_Witness ==
  /\ pc = "exited" /\ exitCode = 0
  /\ args.depth = 3 /\ args.n = 2
  /\ completed = 2
  /\ Len(CollectorLines) = 2
  /\ CollectorLines[1].tag = "PROGRESS" /\ CollectorLines[1].completed = 1
  /\ CollectorLines[1].label = futures[2].label
  /\ CollectorLines[2].tag = "PROGRESS" /\ CollectorLines[2].completed = 2

\* ------------------------------------------------------------------ termination
\* The run under the same fairness, every request in flight being answered
\* (with a status, or by an exception of subprocess.run).
LiveArgs == {a \in Args : a.addr /\ a.token /\ a.n > 0 /\ a.x >= 0}

InitLive ==
  /\ args \in LiveArgs
  /\ curl \in [found : BOOLEAN, base : FaultResponses]
  /\ pc = "start"
  /\ exitCode = 0 - 1
  /\ tasks = <<>>
  /\ futures = <<>>
  /\ collected = {}
  /\ completed = 0
  /\ out = <<>>
  /\ faults = MaxFaults
  /\ probe = NoProbe
  /\ service = NoService
  /\ history = FirstRun
  /\ console = NoConsole

SpecLive == InitLive /\ [][Next]_vars /\ Fairness

\* C18: with a pool of at least one worker, curl installed and every request
\* answered with a status, the run comes to its end: every work item was
\* started and issued all its requests, each of which returned, and the
\* process exits with code 0.
C18_Terminates ==
  (args.workers >= 1 /\ curl.found /\ ~curl.base.raises) =>
    <>( /\ pc = "exited" /\ exitCode = 0
        /\ Len(futures) = args.n
        /\ \A t \in Futs : RanAll(t) )

\* A run of two trees on one worker has ended with exit code 0, all eight
\* requests answered, some with 500.
C18_Witness ==
  /\ pc = "exited" /\ exitCode = 0
  /\ args.workers = 1 /\ args.depth = 3 /\ args.n = 2
  /\ args.ns_level2 = 1 /\ args.x = 1
  /\ \A t \in Futs : RanAll(t) /\ Len(futures[t].reqs) = 4
  /\ \E t \in Futs : futures[t].reqs[1].code = 500

\* ---------------------------------------------------------------------------
\* An exception truncates the tree

Raised == {t \in Futs : futures[t].st = "raised"}

LinesNaming(tag, t) ==
  SelectSeq(out, LAMBDA l : l.tag = tag /\ l.label = futures[t].label)

\* C19: of a tree one of whose requests raised, the request that raised is
\* the last one issued, and nothing is in flight; the tree has no progress
\* line; it has no exception line before the collector has handled it and
\* exactly one, naming it, from then on.
C19_ExceptionTruncates ==
  args.depth = 3 =>
    \A t \in Raised :
      LET rs == futures[t].reqs
      IN  /\ ~futures[t].inflight
          /\ Len(rs) > 0
          /\ ~rs[Len(rs)].returned
          /\ \A i \in 1..(Len(rs) - 1) : rs[i].returned
          /\ Len(LinesNaming("PROGRESS", t)) = 0
          /\ Len(LinesNaming("EXCEPTION", t)) = IF t \in collected THEN 1 ELSE 0

\* The parent's namespace-create of the first of two trees raised: the tree
\* stopped there, was collected and has its exception line; the other tree
\* ran to its end.
C19_Witness ==
  /\ args.depth = 3 /\ args.n = 2 /\ args.ns_level2 = 1 /\ args.x = 1
  /\ pc = "exited" /\ exitCode = 0
  /\ 1 \in Raised
  /\ Len(futures[1].reqs) = 1
  /\ RanAll(2)
  /\ Len(LinesNaming("EXCEPTION", 1)) = 1

\* ---------------------------------------------------------------------------
\* Results

\* res is the result of the unit whose namespace-create is the request at
\* position first of rs: the raw code of that request, ns_created set, and
\* one entry per mount, in ascending index order, with the raw code of the
\* request that followed.
UnitResultOf(res, rs, first) ==
  /\ res.ns_code = rs[first].code
  /\ res.ns_created = TRUE
  /\ res.ns_name = <<"root", "/">> \o NsPath(rs[first].req)
  /\ Len(res.kv_results) = args.x
  /\ \A m \in 1..args.x :
       res.kv_results[m] =
         [mount |-> <<"kv", "-">>
                    \o ZeroPadded(args.start_index + m - 1,
                                  PadWidth(args.start_index, args.x)),
          code |-> rs[first + m].code]

\* C20: the result a depth-2 work item returns records the raw code of its
\* namespace-create, ns_created true whatever that code, and exactly x
\* (mount name, code) entries in ascending index order; the result a tree
\* returns has parent_created true and exactly ns_level2 child results, in
\* index order, each such a result; the child results a running tree has
\* gathered so far are such results too.
C20_Results ==
  \A t \in Futs :
    LET f == futures[t]
    IN  /\ (args.depth = 2 /\ f.st = "done") => UnitResultOf(f.results, f.reqs, 1)
        /\ (args.depth = 3 /\ f.level \in {"parent", "child"}) =>
             /\ Len(f.tree.children) <= args.ns_level2
             /\ \A j \in 1..Len(f.tree.children) :
                  UnitResultOf(f.tree.children[j], f.reqs, j * (1 + args.x) + 1)
             /\ f.st = "done" =>
                  /\ f.tree.parent_created = TRUE
                  /\ f.tree.parent = f.reqs[1].req.url
                  /\ Len(f.tree.children) = args.ns_level2

\* A tree of two children returned although the parent's namespace-create
\* came back without a status (code -1): parent_created is set and both
\* child results are there, the second with a mount that failed with 500.
C20_Witness ==
  /\ args.depth = 3 /\ args.ns_level2 = 2 /\ args.x = 1
  /\ \E t \in Futs :
       /\ futures[t].st = "done"
       /\ futures[t].reqs[1].code = 0 - 1
       /\ futures[t].tree.parent_created
       /\ Len(futures[t].tree.children) = 2
       /\ futures[t].tree.children[2].kv_results[1].code = 500

====
